---- MODULE Spec2Model ----
(***************************************************************************)
(* Model of download_maps.py: the Web-Mercator tile mapper (deg2num, the   *)
(* per-zoom range_tiles block) and the download loop with its on-disk      *)
(* cache (download_tile), run any number of times against one cache root.  *)
(***************************************************************************)
EXTENDS Integers, Sequences, FiniteSets, TLC

\* ------------------------------------------------------------------------
\* Bounds of the model
\* ------------------------------------------------------------------------
MaxFaults == 1       \* environment faults (bad status, exception) per behaviour
MaxVersion == 2      \* versions of the remote content
WideMaxZoom == 15    \* fault-free runs: one zoom of ZOOM_MIN..WideMaxZoom
WideMaxRadius == 5   \* fault-free runs: radii 0..WideMaxRadius kilometres

\* ------------------------------------------------------------------------
\* Configuration of the script (lines 7-12); degrees are kept in 1e-4 units
\* ------------------------------------------------------------------------
LAT_E4 == -253316
LON_E4 == -575171
ZOOM_MIN == 12
ZOOM_MAX == 16
RADIO_KM == 5
FAR_ZOOM == 14       \* line 55: below this zoom range_tiles is fixed

FIUNA == <<LAT_E4, LON_E4>>

\* A second center, on the north-west corner of the Mercator grid.
Corner == <<850511, -1800000>>

Centers == { FIUNA, Corner }

\* ------------------------------------------------------------------------
\* Arithmetic helpers
\* ------------------------------------------------------------------------
\* 2 ** n for an integer n >= 0.
Pow2(n) == 2^n

\* Python's int() of the quotient num/den (den > 0): truncation toward zero.
Trunc(num, den) == IF num >= 0 THEN num \div den ELSE -((-num) \div den)

\* floor(2^24 * (1 - asinh(tan(lat)) / pi) / 2), tabulated for the latitudes
\* of Centers: 0.5727767507... at -25.3316 and 0.0000009267... at 85.0511.
MercatorFrac24(lat_e4) ==
    CASE lat_e4 = LAT_E4 -> 9609599
      [] lat_e4 = Corner[1] -> 15

\* deg2num: the tile that contains the point, truncated toward zero.
\* (lon + 180) / 360 * 2^zoom = (lon_e4 + 1800000) * 2^(zoom - 7) / 28125.
deg2num(lat_e4, lon_e4, zoom) ==
    LET xtile == IF zoom >= 7
                 THEN Trunc((lon_e4 + 1800000) * Pow2(zoom - 7), 28125)
                 ELSE Trunc(lon_e4 + 1800000, 28125 * Pow2(7 - zoom))
        ytile == Trunc(MercatorFrac24(lat_e4), Pow2(24 - zoom))
    IN  <<xtile, ytile>>

\* Far zooms reduced to the center tile alone.
range_tiles_center_only(z, radio) ==
    LET approx == IF z >= 15 THEN radio * Pow2(z - 15)
                             ELSE Trunc(radio, Pow2(15 - z))
    IN  IF z < FAR_ZOOM THEN 0 ELSE approx + 1

\* Line 55 left out: the formula of line 54 at every zoom.
range_tiles_no_override(z, radio) ==
    LET approx == IF z >= 15 THEN radio * Pow2(z - 15)
                             ELSE Trunc(radio, Pow2(15 - z))
    IN  approx + 1

\* Line 54 without its "+ 1".
range_tiles_no_margin(z, radio) ==
    LET approx == IF z >= 15 THEN radio * Pow2(z - 15)
                             ELSE Trunc(radio, Pow2(15 - z))
    IN  IF z < FAR_ZOOM THEN 1 ELSE approx

\* range_tiles of lines 54-55.
range_tiles(z, radio) ==
    LET approx == IF z >= 15 THEN radio * Pow2(z - 15)
                             ELSE Trunc(radio, Pow2(15 - z))
    IN  IF z < FAR_ZOOM THEN 1 ELSE approx + 1

\* url and path of lines 24-25 are both determined by (z, x, y).
Url(z, x, y) == <<z, x, y>>
Path(z, x, y) == <<z, x, y>>
DirName(p) == <<p[1], p[2]>>

\* ------------------------------------------------------------------------
\* State
\* ------------------------------------------------------------------------
VARIABLES
    cfg,       \* [lat, lon, zmin, zmax, radio]: the constants of the script
    pc,        \* position of the process
    z, x, y,   \* the loop variables of lines 49, 59, 60
    disk,      \* path -> content of the files under public/maps
    dirs,      \* the directories under public/maps
    inflight,  \* urls requested and not yet answered
    remote,    \* version of the content the server returns now
    response,  \* what requests.get returned last: status and content
    faults,    \* faults the environment has produced so far
    trace,     \* what the current run has done, in order
    prev,      \* what is kept of the previous run: see Summary
    storage,   \* "ok", or "denied": public/maps cannot be written any more
    procs      \* the scripts that run at the same time on one public/maps

vars == <<cfg, pc, z, x, y, disk, dirs, inflight, remote, response, faults,
          trace, prev, storage, procs>>

\* Two scripts started side by side, each one the process of lines 47-63.
Procs == {1, 2}

NotStarted == [pc |-> "idle", z |-> 0, x |-> 0, y |-> 0, requests |-> 0]

Statuses == {200, 404, 503}

Center(zz) == deg2num(cfg.lat, cfg.lon, zz)
Range(zz) == range_tiles(zz, cfg.radio)

\* The coordinates the x/y loops of lines 59-60 enumerate at zoom zz.
Block(zz) ==
    { <<zz, xx, yy>> : xx \in (Center(zz)[1] - Range(zz))..(Center(zz)[1] + Range(zz)),
                       yy \in (Center(zz)[2] - Range(zz))..(Center(zz)[2] + Range(zz)) }

\* What the server holds for url u now, and a response carrying it.
Body(u) == [tile |-> u, ver |-> remote, complete |-> TRUE]
\* The result of requests.get: a response, or an exception raised by it.
Response(s, u) == [status_code |-> s, content |-> Body(u), raised |-> ""]
NoContent == [tile |-> <<>>, ver |-> 0, complete |-> FALSE]
NoResponse == [status_code |-> 0, content |-> NoContent, raised |-> ""]
RequestException == [status_code |-> 0, content |-> NoContent, raised |-> "RequestException"]

\* A file that was opened for writing and did not get all of content c.
Truncated(c) == [c EXCEPT !.complete = FALSE]

\* A cache check that never finds the file.
ExistsNever(p) == FALSE

\* A cache check that looks under {z}/{y}/{x}.png.
ExistsSwapped(p) == <<p[1], p[3], p[2]>> \in DOMAIN disk

Exists(p) == p \in DOMAIN disk

\* A write that is lost.
WriteFileDropped(p, c) == disk

WriteFile(p, c) == [q \in (DOMAIN disk) \cup {p} |-> IF q = p THEN c ELSE disk[q]]

\* One line of the trace: a print of the script, a request or a delay.
Event(k, t, s, e) == [kind |-> k, tile |-> t, status |-> s, error |-> e]

\* What is kept of a run once the script is started again: how it ended
\* ("done" or "crashed"), the coordinates whose fetch failed with a status or
\* a transport failure, the number of requests and the number of failures.
Summary ==
    [ end |-> pc,
      failed |-> { trace[i].tile :
                     i \in { j \in DOMAIN trace :
                               /\ trace[j].kind = "failed"
                               /\ trace[j].error \in {"", "transport"} } },
      requests |-> Cardinality({ i \in DOMAIN trace : trace[i].kind = "request" }),
      failures |-> Cardinality({ i \in DOMAIN trace : trace[i].kind \in {"failed", "raised"} }) ]

NoRun == [end |-> "none", failed |-> {}, requests |-> 0, failures |-> 0]

\* Loops whose lower ends are clamped to the grid: max(0, center - range).
RECURSIVE FirstFromClamped(_)
FirstFromClamped(zz) ==
    IF zz > cfg.zmax THEN <<>>
    ELSE IF Range(zz) < 0 THEN FirstFromClamped(zz + 1)
    ELSE <<zz,
           IF Center(zz)[1] - Range(zz) < 0 THEN 0 ELSE Center(zz)[1] - Range(zz),
           IF Center(zz)[2] - Range(zz) < 0 THEN 0 ELSE Center(zz)[2] - Range(zz)>>

\* First coordinate of the loops from zoom zz on; <<>> when none is left.
RECURSIVE FirstFrom(_)
FirstFrom(zz) ==
    IF zz > cfg.zmax THEN <<>>
    ELSE IF Range(zz) < 0 THEN FirstFrom(zz + 1)
    ELSE <<zz, Center(zz)[1] - Range(zz), Center(zz)[2] - Range(zz)>>

\* The loops of lines 59-60 nested the other way round: y outside, x inside.
NextTileYOuter ==
    IF x < Center(z)[1] + Range(z) THEN <<z, x + 1, y>>
    ELSE IF y < Center(z)[2] + Range(z) THEN <<z, Center(z)[1] - Range(z), y + 1>>
    ELSE FirstFrom(z + 1)

\* The y loop of line 60 without the + 1 at its upper end.
NextTileShortY ==
    IF y < Center(z)[2] + Range(z) - 1 THEN <<z, x, y + 1>>
    ELSE IF x < Center(z)[1] + Range(z) THEN <<z, x + 1, Center(z)[2] - Range(z)>>
    ELSE FirstFrom(z + 1)

\* The coordinate after (z, x, y) in the loops of lines 49, 59, 60.
NextTile ==
    IF y < Center(z)[2] + Range(z) THEN <<z, x, y + 1>>
    ELSE IF x < Center(z)[1] + Range(z) THEN <<z, x + 1, Center(z)[2] - Range(z)>>
    ELSE FirstFrom(z + 1)

\* Move the loops to coordinate t, or finish the script.
Goto(t) ==
    IF t = <<>>
    THEN pc' = "done" /\ UNCHANGED <<z, x, y>>
    ELSE pc' = "check" /\ z' = t[1] /\ x' = t[2] /\ y' = t[3]

Config(c, a, b, r) == [lat |-> c[1], lon |-> c[2], zmin |-> a, zmax |-> b, radio |-> r]

\* The zooms at which line 55 fixes the block, whatever the radius.
FarZooms == ZOOM_MIN..(FAR_ZOOM - 1)

\* Parameters of the runs checked with a faulty environment: the center and
\* radius of the script, every zoom range within the far zooms.
Configs ==
    { Config(FIUNA, ab[1], ab[2], RADIO_KM) :
        ab \in { p \in FarZooms \X FarZooms : p[1] <= p[2] } }

\* Parameters of the runs checked with a reliable environment.
WideConfigs ==
    { Config(c, a, a, r) :
        c \in Centers, a \in ZOOM_MIN..WideMaxZoom, r \in 0..WideMaxRadius }

\* Every coordinate the loops of lines 49-61 enumerate in one run.
AllTiles == UNION { Block(zz) : zz \in cfg.zmin..cfg.zmax }

\* Before the first run: nothing under public/maps, nothing printed.
Fresh ==
    /\ pc = "idle"
    /\ z = 0 /\ x = 0 /\ y = 0
    /\ disk = <<>>
    /\ dirs = {}
    /\ inflight = {}
    /\ remote = 1
    /\ response = NoResponse
    /\ faults = 0
    /\ trace = <<>>
    /\ prev = NoRun
    /\ storage = "ok"
    /\ procs = [p \in Procs |-> NotStarted]

Init == cfg \in Configs /\ Fresh

InitWide == cfg \in WideConfigs /\ Fresh

\* ------------------------------------------------------------------------
\* Actions
\* ------------------------------------------------------------------------

\* The script is started (again): lines 47-50 up to the first download_tile.
StartRun ==
    /\ pc \in {"idle", "done", "crashed"}
    /\ prev' = IF pc = "idle" THEN NoRun ELSE Summary
    /\ trace' = <<>>
    /\ response' = NoResponse
    /\ Goto(FirstFrom(cfg.zmin))
    /\ UNCHANGED <<cfg, disk, dirs, inflight, remote, faults, storage, procs>>

\* A cache hit that falls through to the delay of line 45.
CacheHitSleeps ==
    /\ pc = "check"
    /\ Exists(Path(z, x, y))
    /\ trace' = Append(trace, Event("cached", <<z, x, y>>, 0, ""))
    /\ pc' = "sleep"
    /\ UNCHANGED <<cfg, z, x, y, disk, dirs, inflight, remote, response, faults,
                   prev, storage, procs>>

\* Lines 27-29: the file exists; print and return, the loop moves on.
CacheHit ==
    /\ pc = "check"
    /\ Exists(Path(z, x, y))
    /\ trace' = Append(trace, Event("cached", <<z, x, y>>, 0, ""))
    /\ Goto(NextTile)
    /\ UNCHANGED <<cfg, disk, dirs, inflight, remote, response, faults, prev, storage, procs>>

\* Lines 27, 31: no file; the directory is made (or is there already).
MakeDirs ==
    /\ pc = "check"
    /\ ~Exists(Path(z, x, y))
    /\ storage = "ok" \/ DirName(Path(z, x, y)) \in dirs
    /\ dirs' = dirs \cup {DirName(Path(z, x, y))}
    /\ pc' = "get"
    /\ UNCHANGED <<cfg, z, x, y, disk, inflight, remote, response, faults, trace,
                   prev, storage, procs>>

\* Line 31 raises (outside the try): the exception ends the script.
MakeDirsFail ==
    /\ pc = "check"
    /\ ~Exists(Path(z, x, y))
    /\ DirName(Path(z, x, y)) \notin dirs
    /\ faults < MaxFaults
    /\ faults' = faults + 1
    /\ trace' = Append(trace, Event("raised", <<z, x, y>>, 0, "makedirs"))
    /\ pc' = "crashed"
    /\ UNCHANGED <<cfg, z, x, y, disk, dirs, inflight, remote, response, prev, storage, procs>>

\* Line 35: the GET is sent and the process blocks on it.
SendRequest ==
    /\ pc = "get"
    /\ inflight' = inflight \cup {Url(z, x, y)}
    /\ trace' = Append(trace, Event("request", <<z, x, y>>, 0, ""))
    /\ pc' = "wait"
    /\ UNCHANGED <<cfg, z, x, y, disk, dirs, remote, response, faults, prev, storage, procs>>

\* Lines 35-39: status 200, the content is written to the path.
Fetched ==
    /\ pc = "wait"
    /\ storage = "ok"
    /\ inflight' = inflight \ {Url(z, x, y)}
    /\ response' = Response(200, Url(z, x, y))
    /\ disk' = WriteFile(Path(z, x, y), response'.content)
    /\ trace' = Append(trace, Event("fetched", <<z, x, y>>, response'.status_code, ""))
    /\ pc' = "sleep"
    /\ UNCHANGED <<cfg, z, x, y, dirs, remote, faults, prev, storage, procs>>

\* An except branch that passes in silence: nothing is printed for the tile.
OpenFailsSilent ==
    /\ pc = "wait"
    /\ faults < MaxFaults
    /\ faults' = faults + 1
    /\ inflight' = inflight \ {Url(z, x, y)}
    /\ response' = Response(200, Url(z, x, y))
    /\ pc' = "sleep"
    /\ UNCHANGED <<cfg, z, x, y, disk, dirs, remote, trace, prev, storage, procs>>

\* Lines 35-37, 42-43: status 200 but open() raises; no file is made.
OpenFails ==
    /\ pc = "wait"
    /\ faults < MaxFaults
    /\ faults' = faults + 1
    /\ inflight' = inflight \ {Url(z, x, y)}
    /\ response' = Response(200, Url(z, x, y))
    /\ trace' = Append(trace, Event("failed", <<z, x, y>>, 0, "open"))
    /\ pc' = "sleep"
    /\ UNCHANGED <<cfg, z, x, y, disk, dirs, remote, prev, storage, procs>>

\* Lines 35-38, 42-43: the file is opened (so it exists) and write() raises.
WriteFails ==
    /\ pc = "wait"
    /\ storage = "ok"
    /\ faults < MaxFaults
    /\ faults' = faults + 1
    /\ inflight' = inflight \ {Url(z, x, y)}
    /\ response' = Response(200, Url(z, x, y))
    /\ disk' = WriteFile(Path(z, x, y), Truncated(response'.content))
    /\ trace' = Append(trace, Event("failed", <<z, x, y>>, 0, "write"))
    /\ pc' = "sleep"
    /\ UNCHANGED <<cfg, z, x, y, dirs, remote, prev, storage, procs>>

\* A handler without the test of line 36: the content is written anyway.
BadStatusWrites ==
    /\ pc = "wait"
    /\ faults < MaxFaults
    /\ faults' = faults + 1
    /\ inflight' = inflight \ {Url(z, x, y)}
    /\ \E s \in Statuses \ {200} : response' = Response(s, Url(z, x, y))
    /\ disk' = WriteFile(Path(z, x, y), response'.content)
    /\ trace' = Append(trace, Event("failed", <<z, x, y>>, response'.status_code, ""))
    /\ pc' = "sleep"
    /\ UNCHANGED <<cfg, z, x, y, dirs, remote, prev, storage, procs>>

\* Lines 35-36, 40-41: any other status; it is printed, nothing is written.
BadStatus ==
    /\ pc = "wait"
    /\ faults < MaxFaults
    /\ faults' = faults + 1
    /\ inflight' = inflight \ {Url(z, x, y)}
    /\ \E s \in Statuses \ {200} : response' = Response(s, Url(z, x, y))
    /\ trace' = Append(trace, Event("failed", <<z, x, y>>, response'.status_code, ""))
    /\ pc' = "sleep"
    /\ UNCHANGED <<cfg, z, x, y, disk, dirs, remote, prev, storage, procs>>

\* A file opened before the request: the exception leaves it behind, empty.
TransportFailsLeavesFile ==
    /\ pc = "wait"
    /\ faults < MaxFaults
    /\ faults' = faults + 1
    /\ inflight' = inflight \ {Url(z, x, y)}
    /\ response' = RequestException
    /\ disk' = WriteFile(Path(z, x, y), Truncated(Body(Url(z, x, y))))
    /\ trace' = Append(trace, Event("failed", <<z, x, y>>, 0, "transport"))
    /\ pc' = "sleep"
    /\ UNCHANGED <<cfg, z, x, y, dirs, remote, prev, storage, procs>>

\* A request outside the try: the exception ends the script.
TransportFailsUncaught ==
    /\ pc = "wait"
    /\ faults < MaxFaults
    /\ faults' = faults + 1
    /\ inflight' = inflight \ {Url(z, x, y)}
    /\ response' = RequestException
    /\ trace' = Append(trace, Event("raised", <<z, x, y>>, 0, "transport"))
    /\ pc' = "crashed"
    /\ UNCHANGED <<cfg, z, x, y, disk, dirs, remote, prev, storage, procs>>

\* Lines 35, 42-43: requests.get raises (timeout, DNS, connection reset).
TransportFails ==
    /\ pc = "wait"
    /\ faults < MaxFaults
    /\ faults' = faults + 1
    /\ inflight' = inflight \ {Url(z, x, y)}
    /\ response' = RequestException
    /\ trace' = Append(trace, Event("failed", <<z, x, y>>, 0, "transport"))
    /\ pc' = "sleep"
    /\ UNCHANGED <<cfg, z, x, y, disk, dirs, remote, prev, storage, procs>>

\* A retry loop around the fetch: after a failure the same coordinate again.
SleepRetriesFailed ==
    /\ pc = "sleep"
    /\ trace' = Append(trace, Event("delay", <<z, x, y>>, 0, ""))
    /\ response' = NoResponse
    /\ IF trace[Len(trace)].kind = "failed"
       THEN pc' = "check" /\ UNCHANGED <<z, x, y>>
       ELSE Goto(NextTile)
    /\ UNCHANGED <<cfg, disk, dirs, inflight, remote, faults, prev, storage, procs>>

\* Line 45: the delay, then download_tile returns and the loop moves on.
Sleep ==
    /\ pc = "sleep"
    /\ trace' = Append(trace, Event("delay", <<z, x, y>>, 0, ""))
    /\ response' = NoResponse
    /\ Goto(NextTile)
    /\ UNCHANGED <<cfg, disk, dirs, inflight, remote, faults, prev, storage, procs>>

\* The server starts to serve different content; the change falls between
\* two runs of the script.
RemoteChange ==
    /\ pc \in {"done", "crashed"}
    /\ remote < MaxVersion
    /\ remote' = remote + 1
    /\ UNCHANGED <<cfg, pc, z, x, y, disk, dirs, inflight, response, faults, trace,
                   prev, storage, procs>>

\* public/maps loses its write permission (or its disk fills up) while no
\* script runs, and stays so.
StorageDenied ==
    /\ pc \in {"idle", "done", "crashed"}
    /\ storage = "ok"
    /\ storage' = "denied"
    /\ UNCHANGED <<cfg, pc, z, x, y, disk, dirs, inflight, remote, response, faults,
                   trace, prev, procs>>

\* Line 31 on a directory that is missing and cannot be made: makedirs
\* raises outside the try and the exception ends the script.
MakeDirsDenied ==
    /\ pc = "check"
    /\ ~Exists(Path(z, x, y))
    /\ storage = "denied"
    /\ DirName(Path(z, x, y)) \notin dirs
    /\ trace' = Append(trace, Event("raised", <<z, x, y>>, 0, "makedirs"))
    /\ pc' = "crashed"
    /\ UNCHANGED <<cfg, z, x, y, disk, dirs, inflight, remote, response, faults, prev,
                   storage, procs>>

\* Lines 35-37, 42-43 with the directory there (exist_ok) and not writable:
\* the answer is 200, open() raises inside the try, line 43 prints it.
OpenDenied ==
    /\ pc = "wait"
    /\ storage = "denied"
    /\ inflight' = inflight \ {Url(z, x, y)}
    /\ response' = Response(200, Url(z, x, y))
    /\ trace' = Append(trace, Event("failed", <<z, x, y>>, 0, "open"))
    /\ pc' = "sleep"
    /\ UNCHANGED <<cfg, z, x, y, disk, dirs, remote, faults, prev, storage, procs>>

Next ==
    \/ StartRun
    \/ CacheHit
    \/ MakeDirs
    \/ MakeDirsFail
    \/ SendRequest
    \/ Fetched
    \/ OpenFails
    \/ WriteFails
    \/ BadStatus
    \/ TransportFails
    \/ Sleep
    \/ RemoteChange

Spec == Init /\ [][Next]_vars

\* The runs in which every request is answered 200 and every write succeeds.
NextReliable ==
    \/ StartRun
    \/ CacheHit
    \/ MakeDirs
    \/ SendRequest
    \/ Fetched
    \/ Sleep
    \/ RemoteChange

SpecReliable == InitWide /\ [][NextReliable]_vars

\* Runs over one zoom level, the script started again and again: every step
\* of a started script is eventually taken (requests.get returns or raises,
\* the sleep ends) and the script is eventually started again.
InitLive == Init /\ cfg.zmin = cfg.zmax

Step ==
    \/ CacheHit
    \/ MakeDirs
    \/ MakeDirsFail
    \/ SendRequest
    \/ Fetched
    \/ OpenFails
    \/ WriteFails
    \/ BadStatus
    \/ TransportFails
    \/ Sleep

\* The runs of one zoom level around the moment public/maps stops being
\* writable; the content on the server stays as it is.
NextStorage ==
    \/ StartRun
    \/ CacheHit
    \/ MakeDirs
    \/ MakeDirsFail
    \/ SendRequest
    \/ Fetched
    \/ OpenFails
    \/ WriteFails
    \/ BadStatus
    \/ TransportFails
    \/ Sleep
    \/ StorageDenied
    \/ MakeDirsDenied
    \/ OpenDenied

SpecStorage == InitLive /\ [][NextStorage]_vars

\* The coordinate after t in the loops of lines 49, 59, 60, for a script
\* whose loop variables are at t.
NextTileOf(t) ==
    IF t[3] < Center(t[1])[2] + Range(t[1]) THEN <<t[1], t[2], t[3] + 1>>
    ELSE IF t[2] < Center(t[1])[1] + Range(t[1])
         THEN <<t[1], t[2] + 1, Center(t[1])[2] - Range(t[1])>>
    ELSE FirstFrom(t[1] + 1)

At(p) == <<procs[p].z, procs[p].x, procs[p].y>>

\* Script p moves its loops to coordinate t, or finishes.
ProcGoto(p, t) ==
    procs' = [procs EXCEPT ![p] =
                IF t = <<>>
                THEN [@ EXCEPT !.pc = "done"]
                ELSE [@ EXCEPT !.pc = "check", !.z = t[1], !.x = t[2], !.y = t[3]]]

ProcAt(p, l) == procs' = [procs EXCEPT ![p].pc = l]

\* Lines 47-50 of script p.
ProcStart(p) ==
    /\ procs[p].pc = "idle"
    /\ ProcGoto(p, FirstFrom(cfg.zmin))
    /\ UNCHANGED <<cfg, pc, z, x, y, disk, dirs, inflight, remote, response, faults,
                   trace, prev, storage>>

\* Lines 27-29 of script p: the file is there, whoever made it.
ProcCacheHit(p) ==
    /\ procs[p].pc = "check"
    /\ Exists(At(p))
    /\ ProcGoto(p, NextTileOf(At(p)))
    /\ UNCHANGED <<cfg, pc, z, x, y, disk, dirs, inflight, remote, response, faults,
                   trace, prev, storage>>

\* Lines 27, 31 of script p.
ProcMakeDirs(p) ==
    /\ procs[p].pc = "check"
    /\ ~Exists(At(p))
    /\ dirs' = dirs \cup {DirName(At(p))}
    /\ ProcAt(p, "get")
    /\ UNCHANGED <<cfg, pc, z, x, y, disk, inflight, remote, response, faults,
                   trace, prev, storage>>

\* Line 35 of script p: the GET is sent.
ProcSendRequest(p) ==
    /\ procs[p].pc = "get"
    /\ procs' = [procs EXCEPT ![p].pc = "wait", ![p].requests = @ + 1]
    /\ UNCHANGED <<cfg, pc, z, x, y, disk, dirs, inflight, remote, response, faults,
                   trace, prev, storage>>

\* Lines 35-37 of script p: the answer is 200 and open(path, 'wb') makes
\* the file, or empties the file that is there.
ProcOpen(p) ==
    /\ procs[p].pc = "wait"
    /\ disk' = WriteFile(At(p), Truncated(Body(At(p))))
    /\ ProcAt(p, "open")
    /\ UNCHANGED <<cfg, pc, z, x, y, dirs, inflight, remote, response, faults,
                   trace, prev, storage>>

\* A write that does not reach the file.
ProcWriteLost(p) ==
    /\ procs[p].pc = "open"
    /\ ProcAt(p, "sleep")
    /\ UNCHANGED <<cfg, pc, z, x, y, disk, dirs, inflight, remote, response, faults,
                   trace, prev, storage>>

\* Lines 38-39 of script p: the whole body is written from offset 0.
ProcWrite(p) ==
    /\ procs[p].pc = "open"
    /\ disk' = WriteFile(At(p), Body(At(p)))
    /\ ProcAt(p, "sleep")
    /\ UNCHANGED <<cfg, pc, z, x, y, dirs, inflight, remote, response, faults,
                   trace, prev, storage>>

\* Line 45 of script p.
ProcSleep(p) ==
    /\ procs[p].pc = "sleep"
    /\ ProcGoto(p, NextTileOf(At(p)))
    /\ UNCHANGED <<cfg, pc, z, x, y, disk, dirs, inflight, remote, response, faults,
                   trace, prev, storage>>

\* Two scripts on one public/maps, their steps interleaved in any way; every
\* request is answered 200 with the same content.
NextConc ==
    \/ \E p \in Procs : ProcStart(p)
    \/ \E p \in Procs : ProcCacheHit(p)
    \/ \E p \in Procs : ProcMakeDirs(p)
    \/ \E p \in Procs : ProcSendRequest(p)
    \/ \E p \in Procs : ProcOpen(p)
    \/ \E p \in Procs : ProcWrite(p)
    \/ \E p \in Procs : ProcSleep(p)

SpecConc == InitLive /\ [][NextConc]_vars

SpecLive == InitLive /\ [][Next]_vars /\ WF_vars(Step) /\ WF_vars(StartRun)

TypeOK ==
    /\ pc \in {"idle", "check", "get", "wait", "sleep", "done", "crashed"}
    /\ faults \in 0..MaxFaults
    /\ remote \in 1..MaxVersion
    /\ storage \in {"ok", "denied"}
    /\ \A p \in Procs : procs[p].pc \in {"idle", "check", "get", "wait", "open", "sleep", "done"}

\* ------------------------------------------------------------------------
\* Vocabulary of the properties
\* ------------------------------------------------------------------------
Last == trace[Len(trace)]

\* Order of (zoom, x, y) triples: zoom first, then x, then y.
LexLess(a, b) ==
    \/ a[1] < b[1]
    \/ a[1] = b[1] /\ a[2] < b[2]
    \/ a[1] = b[1] /\ a[2] = b[2] /\ a[3] < b[3]

\* u is the coordinate of the tile set that follows t in that order.
IsNextInOrder(t, u) ==
    /\ u \in AllTiles
    /\ LexLess(t, u)
    /\ ~\E v \in AllTiles : LexLess(t, v) /\ LexLess(v, u)

IsLastTile(t) == ~\E v \in AllTiles : LexLess(t, v)

\* After the failed attempt logged at trace[i] the run goes on: the delay,
\* then the next coordinate of the tile set, or the end of the script.
Continues(i) ==
    LET t == trace[i].tile
        n == Len(trace)
    IN  /\ n = i => pc = "sleep" /\ <<z, x, y>> = t
        /\ n > i => trace[i + 1] = Event("delay", t, 0, "")
        /\ n = i + 1 =>
              IF IsLastTile(t) THEN pc = "done"
              ELSE pc \in {"check", "get"} /\ IsNextInOrder(t, <<z, x, y>>)
        /\ n > i + 1 => IsNextInOrder(t, trace[i + 2].tile)

\* Index of the last request among trace[1..i], 0 when there is none.
RECURSIVE PrevRequest(_)
PrevRequest(i) ==
    IF i = 0 THEN 0
    ELSE IF trace[i].kind = "request" THEN i
    ELSE PrevRequest(i - 1)

\* The previous run ended normally, all its requests answered 200 and written.
PrevAllSuccess ==
    /\ prev.end = "done"
    /\ prev.failures = 0

\* ------------------------------------------------------------------------
\* C1: after a run in which every request returned 200 and every write
\* succeeded, the next run with the same parameters reports 'cached' for
\* every coordinate it visits, visits all of them and sends no request.
\* ------------------------------------------------------------------------
C1_Idempotence ==
    PrevAllSuccess =>
        /\ \A i \in DOMAIN trace : trace[i].kind = "cached"
        /\ inflight = {}
        /\ pc \in {"check", "done"}
        /\ pc = "done" => { trace[i].tile : i \in DOMAIN trace } = AllTiles

C1_Witness ==
    /\ PrevAllSuccess
    /\ pc = "done"
    /\ prev.requests > 0
    /\ Len(trace) = Cardinality(AllTiles)

\* ------------------------------------------------------------------------
\* C2: when the cache check finds the file of the coordinate, the step
\* taken reports 'cached', sends no request and leaves the file as it is,
\* whatever the server would return now.
\* ------------------------------------------------------------------------
C2_NoRefetch ==
    [][ (pc = "check" /\ <<z, x, y>> \in DOMAIN disk) =>
            /\ trace' = Append(trace, Event("cached", <<z, x, y>>, 0, ""))
            /\ inflight' = {}
            /\ disk' = disk
            /\ pc' \in {"check", "done"} ]_vars

\* A cache hit on a file whose content the server has replaced since.
C2_Witness ==
    /\ Len(trace) > 0
    /\ Last.kind = "cached"
    /\ disk[Last.tile].ver # remote

\* ------------------------------------------------------------------------
\* C3: a response with a status other than 200 is reported as 'failed'
\* with that status, no file is at the path of the coordinate for the rest
\* of the run, and the run goes on with the next coordinate.
\* ------------------------------------------------------------------------
C3_BadStatus ==
    /\ (pc = "sleep" /\ response.status_code \notin {0, 200}) =>
          /\ Last = Event("failed", <<z, x, y>>, response.status_code, "")
          /\ <<z, x, y>> \notin DOMAIN disk
    /\ \A i \in DOMAIN trace :
          (trace[i].kind = "failed" /\ trace[i].error = "") =>
              /\ trace[i].status \in Statuses \ {200}
              /\ trace[i].tile \notin DOMAIN disk
              /\ Continues(i)

\* A 404 was reported and the run has gone on to request the next tile.
C3_Witness ==
    /\ pc = "wait"
    /\ Len(trace) >= 3
    /\ trace[Len(trace) - 2] = Event("failed", trace[Len(trace) - 2].tile, 404, "")
    /\ Last.kind = "request"

\* ------------------------------------------------------------------------
\* C4: when requests.get raises, the coordinate is reported as 'failed'
\* with the error, no file is written for it, and the run goes on with the
\* next coordinate instead of ending.
\* ------------------------------------------------------------------------
C4_Transport ==
    /\ response.raised # "" =>
          /\ pc = "sleep"
          /\ Last = Event("failed", <<z, x, y>>, 0, "transport")
          /\ <<z, x, y>> \notin DOMAIN disk
    /\ \A i \in DOMAIN trace :
          (trace[i].kind = "failed" /\ trace[i].error = "transport") =>
              /\ trace[i].tile \notin DOMAIN disk
              /\ Continues(i)

\* A transport failure was reported and the run has reached the next tile.
C4_Witness ==
    /\ pc = "wait"
    /\ Len(trace) >= 3
    /\ trace[Len(trace) - 2].kind = "failed"
    /\ trace[Len(trace) - 2].error = "transport"
    /\ Last.kind = "request"
    /\ IsNextInOrder(trace[Len(trace) - 2].tile, Last.tile)

\* ------------------------------------------------------------------------
\* C5: every fetch attempt, whatever its result, is followed by one delay
\* before anything else happens; a delay is taken only after a fetch
\* attempt, never after a cache hit; so exactly one delay lies between two
\* consecutive requests of a run.
\* ------------------------------------------------------------------------
C5_RateLimit ==
    LET n == Len(trace)
    IN  /\ \A i \in 1..n :
              trace[i].kind = "request" =>
                  /\ i = n => pc = "wait"
                  /\ i < n => /\ trace[i + 1].kind \in {"fetched", "failed"}
                              /\ trace[i + 1].tile = trace[i].tile
                  /\ i + 1 = n => pc = "sleep"
                  /\ i + 1 < n => trace[i + 2] = Event("delay", trace[i].tile, 0, "")
        /\ \A i \in 1..n :
              trace[i].kind = "delay" =>
                  /\ i >= 3
                  /\ trace[i - 2] = Event("request", trace[i].tile, 0, "")
        /\ \A i \in 1..n :
              (trace[i].kind = "cached" /\ i < n) => trace[i + 1].kind # "delay"
        /\ (n > 1 /\ trace[n].kind = "request" /\ PrevRequest(n - 1) > 0) =>
              Cardinality({ k \in PrevRequest(n - 1)..n : trace[k].kind = "delay" }) = 1

\* A failed attempt, its delay, then the request for the next coordinate.
C5_Witness ==
    /\ Len(trace) >= 4
    /\ Last.kind = "request"
    /\ trace[Len(trace) - 1].kind = "delay"
    /\ trace[Len(trace) - 2].kind = "failed"
    /\ trace[Len(trace) - 3].kind = "request"

\* ------------------------------------------------------------------------
\* Vocabulary of the mapper properties
\* ------------------------------------------------------------------------
\* The coordinates of zoom zz the run has visited so far.
VisitedAt(zz) == { trace[i].tile : i \in { j \in DOMAIN trace : trace[j].tile[1] = zz } }

Visited == { trace[i].tile : i \in DOMAIN trace }

RequestCount == Cardinality({ i \in DOMAIN trace : trace[i].kind = "request" })

\* The square of side 2r+1 around (cx, cy) at zoom zz.
Square(zz, cx, cy, r) ==
    { <<zz, xx, yy>> : xx \in (cx - r)..(cx + r), yy \in (cy - r)..(cy + r) }

\* The first run of the end-to-end scenario has ended.
ScenarioDone ==
    /\ cfg = Config(FIUNA, 12, 12, 5)
    /\ prev.end = "none"
    /\ pc = "done"

\* ------------------------------------------------------------------------
\* C6 as stated: the run of center (-25.3316, -57.5171), radius 5, zoom
\* 12..12 on an empty cache visits one coordinate, sends one request and
\* leaves one file.
\* ------------------------------------------------------------------------
C6_Original ==
    ScenarioDone =>
        /\ Cardinality(Visited) = 1
        /\ RequestCount = 1
        /\ Cardinality(DOMAIN disk) = 1

\* ------------------------------------------------------------------------
\* C6 as amended: that run visits the nine coordinates of the 3x3 block
\* around the center tile (1393, 2346) of zoom 12, sends nine requests and,
\* all answered 200, leaves nine files, each with the content of its tile.
\* ------------------------------------------------------------------------
C6_Scenario ==
    ScenarioDone =>
        /\ Visited = Square(12, 1393, 2346, 1)
        /\ RequestCount = 9
        /\ DOMAIN disk = Square(12, 1393, 2346, 1)
        /\ \A p \in DOMAIN disk : disk[p].tile = p /\ disk[p].complete

C6_Witness ==
    /\ ScenarioDone
    /\ Len(trace) = 27
    /\ Cardinality(DOMAIN disk) = 9

\* ------------------------------------------------------------------------
\* C7 as stated: at every zoom below 14, whatever the radius, the tile
\* radius is 0 and the only coordinate visited is the center tile.
\* ------------------------------------------------------------------------
C7_Original ==
    pc = "done" =>
        \A zz \in cfg.zmin..cfg.zmax :
            zz < 14 =>
                /\ Range(zz) = 0
                /\ VisitedAt(zz) = { <<zz, Center(zz)[1], Center(zz)[2]>> }

\* ------------------------------------------------------------------------
\* C7 as amended: at every zoom below 14, whatever the radius, the tile
\* radius is 1 and the coordinates visited are the nine of the 3x3 block
\* around the center tile.
\* ------------------------------------------------------------------------
C7_FarZoom ==
    pc = "done" =>
        \A zz \in cfg.zmin..cfg.zmax :
            zz < 14 =>
                /\ Range(zz) = 1
                /\ VisitedAt(zz) = Square(zz, Center(zz)[1], Center(zz)[2], 1)
                /\ Cardinality(VisitedAt(zz)) = 9

C7_Witness ==
    /\ pc = "done"
    /\ cfg.zmin = 13
    /\ cfg.radio = 5
    /\ Cardinality(Visited) = 9

\* ------------------------------------------------------------------------
\* C8: at every zoom from 14 on and every radius >= 0 the tile radius is
\* floor(radius * 2^(zoom-15)) + 1 (floor(radius / 2) + 1 at zoom 14) and
\* the coordinates visited are the full square of that radius around the
\* center tile; zoom 15 with radius 5 gives 6 and 13 x 13 = 169 coordinates.
\* ------------------------------------------------------------------------
C8_NearZoom ==
    pc = "done" =>
        \A zz \in cfg.zmin..cfg.zmax :
            zz >= 14 =>
                LET tileRadius == IF zz = 14 THEN (cfg.radio \div 2) + 1
                                  ELSE cfg.radio * 2^(zz - 15) + 1
                IN  /\ Range(zz) = tileRadius
                    /\ VisitedAt(zz) =
                          { <<zz, xx, yy>> :
                              xx \in (Center(zz)[1] - tileRadius)..(Center(zz)[1] + tileRadius),
                              yy \in (Center(zz)[2] - tileRadius)..(Center(zz)[2] + tileRadius) }
                    /\ Cardinality(VisitedAt(zz)) = (2 * tileRadius + 1) * (2 * tileRadius + 1)
                    /\ (zz = 15 /\ cfg.radio = 5) =>
                          tileRadius = 6 /\ Cardinality(VisitedAt(zz)) = 169

C8_Witness ==
    /\ pc = "done"
    /\ cfg.zmin = 15
    /\ cfg.radio = 5
    /\ Cardinality(VisitedAt(15)) = 169

\* ------------------------------------------------------------------------
\* C9: a run handles the coordinates one at a time in the order zoom, then
\* x, then y, all ascending and none skipped; the cache check, request,
\* write and delay of one coordinate are over before the next one is
\* checked, and at most one request is in flight.
\* ------------------------------------------------------------------------
C9_Order ==
    LET n == Len(trace)
    IN  /\ \A i \in 1..(n - 1) :
              IF trace[i].tile = trace[i + 1].tile
              THEN <<trace[i].kind, trace[i + 1].kind>> \in
                      { <<"request", "fetched">>, <<"request", "failed">>,
                        <<"fetched", "delay">>, <<"failed", "delay">> }
              ELSE /\ LexLess(trace[i].tile, trace[i + 1].tile)
                   /\ trace[i].kind \in {"cached", "delay"}
                   /\ trace[i + 1].kind \in {"cached", "request", "raised"}
        /\ pc = "check" => /\ Visited = { t \in AllTiles : LexLess(t, <<z, x, y>>) }
                           /\ n > 0 => Last.kind \in {"cached", "delay"}
        /\ pc = "done" => Visited = AllTiles
        /\ Cardinality(inflight) <= 1
        /\ inflight # {} <=> pc = "wait"
        /\ pc = "wait" => inflight = { <<z, x, y>> } /\ Last = Event("request", <<z, x, y>>, 0, "")

\* A two-zoom run with a failure in it has ended.
C9_Witness ==
    /\ pc = "done"
    /\ cfg.zmin < cfg.zmax
    /\ \E i \in DOMAIN trace : trace[i].kind = "failed"
    /\ \E i \in DOMAIN trace : trace[i].kind = "fetched" /\ trace[i].tile[1] = cfg.zmax

\* ------------------------------------------------------------------------
\* C10: a coordinate whose fetch failed (status other than 200, or a
\* transport failure) in one run has no file when the next run checks it
\* and is requested again by that run; and with the script started again
\* and again, the faults being finitely many, every coordinate of the tile
\* set eventually has a cache file.
\* ------------------------------------------------------------------------
RetriedNextRun ==
    /\ \A i \in DOMAIN trace :
          trace[i].tile \in prev.failed => trace[i].kind \notin {"cached", "raised"}
    /\ (pc = "check" /\ <<z, x, y>> \in prev.failed) => <<z, x, y>> \notin DOMAIN disk
    /\ pc \in {"done", "crashed"} =>
          \A t \in prev.failed : \E i \in DOMAIN trace : trace[i] = Event("request", t, 0, "")

AllCached == AllTiles \subseteq DOMAIN disk

C10_Retry == []RetriedNextRun /\ <>AllCached

\* The run after a failed fetch has requested the coordinate again.
C10_Witness ==
    /\ prev.failed # {}
    /\ Len(trace) > 0
    /\ Last.kind = "fetched"
    /\ Last.tile \in prev.failed
    /\ AllCached

\* ------------------------------------------------------------------------
\* C11: within one run no coordinate is visited twice and no coordinate is
\* requested twice: a failed fetch is not tried again by the same run.
\* ------------------------------------------------------------------------
\* The trace entries that open the handling of a coordinate.
Visits == { i \in DOMAIN trace : trace[i].kind \in {"cached", "request", "raised"} }

Requests == { i \in DOMAIN trace : trace[i].kind = "request" }

C11_OncePerRun ==
    /\ Cardinality({ trace[i].tile : i \in Requests }) = Cardinality(Requests)
    /\ Cardinality({ trace[i].tile : i \in Visits }) = Cardinality(Visits)
    /\ \A i \in DOMAIN trace :
          trace[i].kind = "failed" =>
              \A j \in (i + 1)..Len(trace) :
                  trace[j].tile = trace[i].tile => trace[j].kind = "delay"

\* A run with a failed fetch in it has ended, other requests after it.
C11_Witness ==
    /\ pc = "done"
    /\ \E i \in DOMAIN trace :
          /\ trace[i].kind = "failed"
          /\ \E j \in (i + 1)..Len(trace) : trace[j].kind = "request"

\* ------------------------------------------------------------------------
\* C12: every coordinate of a run that completes has exactly one outcome
\* record (cached, fetched or failed); cached exactly when the file was
\* there at the check, fetched exactly when the response was 200 and its
\* body was written, failed otherwise; a fetched tile has its file.
\* ------------------------------------------------------------------------
OutcomeKinds == {"cached", "fetched", "failed"}

Outcomes(t) == { i \in DOMAIN trace : trace[i].tile = t /\ trace[i].kind \in OutcomeKinds }

C12_Recorded ==
    /\ pc = "done" => \A t \in AllTiles : Cardinality(Outcomes(t)) = 1
    /\ pc = "sleep" =>
          /\ Last.tile = <<z, x, y>>
          /\ Last.kind \in {"fetched", "failed"}
          /\ Last.kind = "fetched" <=>
                /\ response.status_code = 200
                /\ Path(z, x, y) \in DOMAIN disk
                /\ disk[Path(z, x, y)] = response.content
    /\ \A i \in DOMAIN trace :
          /\ trace[i].kind = "delay" =>
                /\ i > 1
                /\ trace[i - 1].tile = trace[i].tile
                /\ trace[i - 1].kind \in {"fetched", "failed"}
          /\ trace[i].kind \in {"cached", "fetched"} => trace[i].tile \in DOMAIN disk

\* The step out of the cache check reports "cached" exactly for a file that is there.
C12_AtCheck ==
    pc = "check" =>
        ((Path(z, x, y) \in DOMAIN disk) <=>
            trace' = Append(trace, Event("cached", <<z, x, y>>, 0, "")))

C12_Outcome == []C12_Recorded /\ [][C12_AtCheck]_vars

\* A completed run that recorded a failure for one tile and fetched others.
C12_Witness ==
    /\ pc = "done"
    /\ \E i, j \in DOMAIN trace : trace[i].kind = "failed" /\ trace[j].kind = "fetched"
    /\ \A t \in AllTiles : Cardinality(Outcomes(t)) = 1

\* ------------------------------------------------------------------------
\* C13: when public/maps cannot be written, the storage failure of a tile
\* (the directory cannot be made, or the body of a 200 answer cannot be
\* stored) propagates and ends the run; it is not a per-tile failure after
\* which the loop goes on.
\* ------------------------------------------------------------------------
\* This step runs into the storage that cannot be written.
StorageFailure ==
    /\ storage = "denied"
    /\ \/ pc = "check" /\ Path(z, x, y) \notin DOMAIN disk
                       /\ DirName(Path(z, x, y)) \notin dirs
       \/ pc = "wait" /\ response'.status_code = 200

C13_StorageFatal == [][StorageFailure => pc' = "crashed"]_vars

\* ------------------------------------------------------------------------
\* C14: over any sequence of runs the cache is append-only: no step removes
\* a file, and no step changes the content of a file that is there.
\* ------------------------------------------------------------------------
C14_AppendOnly ==
    [][\A p \in DOMAIN disk : p \in DOMAIN disk' /\ disk'[p] = disk[p]]_vars

\* A later run has added a file of the newer content next to the files an
\* earlier run wrote, which are kept as they were.
C14_Witness ==
    /\ prev.end # "none"
    /\ \E p, q \in DOMAIN disk : disk[p].ver < disk[q].ver

\* ------------------------------------------------------------------------
\* C15: two scripts that run at the same time on one cache can both find a
\* coordinate missing and both fetch and write it; with the same content
\* served to both, every interleaving ends with the cache a single run
\* leaves: every file of the tile set, each with its complete body.
\* ------------------------------------------------------------------------
\* What one run alone leaves under public/maps.
SingleRunCache == [t \in AllTiles |-> Body(Url(t[1], t[2], t[3]))]

BothDone == \A p \in Procs : procs[p].pc = "done"

C15_BenignRace == BothDone => disk = SingleRunCache

\* Both scripts have ended and together sent more requests than there are
\* coordinates: some coordinate was fetched and written by both.
C15_Witness ==
    /\ BothDone
    /\ procs[1].requests + procs[2].requests > Cardinality(AllTiles)
    /\ disk = SingleRunCache

\* ------------------------------------------------------------------------
\* C17: the block of a zoom level is neither wrapped nor clamped nor
\* filtered: when the center tile is within the tile radius of the edge of
\* the grid, the run visits the coordinates of the block that lie outside
\* [0, 2^zoom), negative ones included, and each of them goes through the
\* cache check and the request like any other coordinate.
\* ------------------------------------------------------------------------
InGrid(t) == t[2] >= 0 /\ t[2] < 2^t[1] /\ t[3] >= 0 /\ t[3] < 2^t[1]

NearEdge(zz) ==
    \/ Center(zz)[1] - Range(zz) < 0 \/ Center(zz)[1] + Range(zz) >= 2^zz
    \/ Center(zz)[2] - Range(zz) < 0 \/ Center(zz)[2] + Range(zz) >= 2^zz

\* The coordinates of the square at zoom zz that no tile of the grid has.
Outside(zz) ==
    { t \in Square(zz, Center(zz)[1], Center(zz)[2], Range(zz)) : ~InGrid(t) }

C17_NoClamp ==
    pc = "done" =>
        \A zz \in cfg.zmin..cfg.zmax :
            /\ NearEdge(zz) => Outside(zz) # {}
            /\ \A t \in Outside(zz) :
                  /\ \E i \in DOMAIN trace :
                        trace[i].tile = t /\ trace[i].kind \in {"cached", "request"}
                  /\ prev.end = "none" =>
                        \E i \in DOMAIN trace :
                            trace[i].tile = t /\ trace[i].kind = "request"
                  /\ prev.end = "done" =>
                        \E i \in DOMAIN trace :
                            trace[i].tile = t /\ trace[i].kind = "cached"

\* The run around the corner tile (0, 0) has requested a coordinate with a
\* negative x and one with a negative y.
C17_Witness ==
    /\ pc = "done"
    /\ Center(cfg.zmin) = <<0, 0>>
    /\ \E i, j \in DOMAIN trace :
          /\ trace[i].kind = "request" /\ trace[i].tile[2] < 0
          /\ trace[j].kind = "request" /\ trace[j].tile[3] < 0

\* ------------------------------------------------------------------------
\* C18: every file under public/maps holds the complete body of a 200
\* response for its own coordinate; a write that fails part-way leaves no
\* file that a later run takes for a cache hit.
\* ------------------------------------------------------------------------
C18_Integrity ==
    /\ \A p \in DOMAIN disk : disk[p].complete /\ disk[p].tile = p
    /\ \A i \in DOMAIN trace :
          trace[i].kind = "cached" => disk[trace[i].tile].complete

\* ------------------------------------------------------------------------
\* C19: with every request answered (or failing) a started run ends: it
\* has handled every coordinate of the tile set exactly once, or an
\* exception that nothing catches has ended it; it never stays on a
\* coordinate for ever.
\* ------------------------------------------------------------------------
Running == pc \in {"check", "get", "wait", "sleep"}

Ended == pc \in {"done", "crashed"}

EndedWell ==
    /\ pc = "done" =>
          /\ { trace[i].tile : i \in Visits } = AllTiles
          /\ Cardinality(Visits) = Cardinality(AllTiles)
    /\ pc = "crashed" => Last.kind = "raised"

C19_Terminates == []EndedWell /\ (Running ~> Ended)

\* A run ended by the exception of makedirs, and the run started after it
\* has handled every coordinate and ended too.
C19_Witness ==
    /\ prev.end = "crashed"
    /\ pc = "done"
    /\ Cardinality(Visits) = Cardinality(AllTiles)
====
